---- MODULE Spec2Model ----
(***************************************************************************)
(* Model of the Asset-Dashboard relationship inference scripts:            *)
(*   fetch_data.py  : stringify, collect_ids, find_fk_candidates           *)
(*   analyze.py     : load_schemas_from_file, collect_all_schemas,         *)
(*                    normalize, find_candidate_fks                        *)
(*   verify_fks.py  : extract_ids, main                                    *)
(* Python strings are sequences of one-character strings, JSON values are  *)
(* tagged records, Python dicts are sequences of <<key, value>> pairs in   *)
(* insertion order.                                                        *)
(***************************************************************************)
EXTENDS Integers, Sequences, FiniteSets, TLC

VARIABLES pc, sv, sout,
          all_collections, col_ids, a_idx, a_name, a_items, sample, f_idx, results,
          collections, all_ids, chk_idx, report,
          docs, d_idx, all_schemas, all_relationships, rel_order, norm_to_schema,
          s_idx, fk_results,
          endpoints, ep_idx, ep_name, status, content, fb_idx, data_dir

strVars == <<sv, sout>>
ovVars == <<all_collections, col_ids, a_idx, a_name, a_items, sample, f_idx, results>>
vfVars == <<collections, all_ids, chk_idx, report>>
anVars == <<docs, d_idx, all_schemas, all_relationships, rel_order, norm_to_schema,
            s_idx, fk_results>>
mnVars == <<endpoints, ep_idx, ep_name, status, content, fb_idx, data_dir>>
vars == <<pc, strVars, ovVars, vfVars, anVars, mnVars>>

(***************************************************************************)
(* Bounds of the explored inputs                                           *)
(***************************************************************************)
MaxKeys == 2
MaxElems == 2
MaxRecords == 2
MaxSrcRecords == 2
MaxTgtRecords == 2
MaxSchemas == 2
MaxProps == 1
MaxPaths == 2
MaxSegs == 3
MaxDocs == 2
MaxEndpoints == 2

(***************************************************************************)
(* String literals of the sources                                          *)
(***************************************************************************)
s_null == <<"<", "n", "u", "l", "l", ">">>
s_True == <<"T", "r", "u", "e">>
s_False == <<"F", "a", "l", "s", "e">>
s_None == <<"N", "o", "n", "e">>
j_null == <<"n", "u", "l", "l">>
j_true == <<"t", "r", "u", "e">>
j_false == <<"f", "a", "l", "s", "e">>
k_id == <<"i", "d">>
k__id == <<"_", "i", "d">>
k_Id == <<"I", "d">>
k_ID == <<"I", "D">>
k_serial_number == <<"s", "e", "r", "i", "a", "l", "_", "n", "u", "m", "b", "e", "r">>
k_asset_rfid_tag == <<"a", "s", "s", "e", "t", "_", "r", "f", "i", "d", "_", "t", "a", "g">>
k_rfid == <<"r", "f", "i", "d">>
k_serial == <<"s", "e", "r", "i", "a", "l">>
k_parent == <<"p", "a", "r", "e", "n", "t">>
n_Asset == <<"A", "s", "s", "e", "t">>
n_Buildings == <<"B", "u", "i", "l", "d", "i", "n", "g", "s">>
f_Building_Id == <<"B", "u", "i", "l", "d", "i", "n", "g", "_", "I", "d">>
n_Instance == <<"I", "n", "s", "t", "a", "n", "c", "e">>
n_Rooms == <<"R", "o", "o", "m", "s">>
n_Vendor == <<"V", "e", "n", "d", "o", "r">>
n_SRB_Details == <<"S", "R", "B", "_", "D", "e", "t", "a", "i", "l", "s">>
n_Purchase_Order_Details == <<"P", "u", "r", "c", "h", "a", "s", "e", "_", "O", "r", "d", "e", "r", "_", "D", "e", "t", "a", "i", "l", "s">>
n_Asset_Condition == <<"A", "s", "s", "e", "t", "_", "C", "o", "n", "d", "i", "t", "i", "o", "n">>
n_Asset_Coverage_History == <<"A", "s", "s", "e", "t", "_", "C", "o", "v", "e", "r", "a", "g", "e", "_", "H", "i", "s", "t", "o", "r", "y">>
n_Asset_Specifications == <<"A", "s", "s", "e", "t", "_", "S", "p", "e", "c", "i", "f", "i", "c", "a", "t", "i", "o", "n", "s">>
f_Building_id == <<"B", "u", "i", "l", "d", "i", "n", "g", "_", "i", "d">>
f_Room_Id == <<"R", "o", "o", "m", "_", "I", "d">>
f_SRB_Id == <<"S", "R", "B", "_", "I", "d">>
f_Asset_Id == <<"A", "s", "s", "e", "t", "_", "I", "d">>
f_asset_id == <<"a", "s", "s", "e", "t", "_", "i", "d">>
f_Vendor_Id == <<"V", "e", "n", "d", "o", "r", "_", "I", "d">>
k_components == <<"c", "o", "m", "p", "o", "n", "e", "n", "t", "s">>
k_schemas == <<"s", "c", "h", "e", "m", "a", "s">>
k_paths == <<"p", "a", "t", "h", "s">>
k_properties == <<"p", "r", "o", "p", "e", "r", "t", "i", "e", "s">>
k_type == <<"t", "y", "p", "e">>
t_integer == <<"i", "n", "t", "e", "g", "e", "r">>
n_End_User == <<"E", "n", "d", "_", "U", "s", "e", "r">>
n_Building == <<"B", "u", "i", "l", "d", "i", "n", "g">>
f_Asset_Specifications_Id == <<"A", "s", "s", "e", "t", "_", "S", "p", "e", "c", "i", "f", "i", "c", "a", "t", "i", "o", "n", "s", "_", "I", "d">>
f_Asset_Name == <<"A", "s", "s", "e", "t", "_", "N", "a", "m", "e">>
f_Valid == <<"V", "a", "l", "i", "d">>
t_relation == <<"r", "e", "l", "a", "t", "i", "o", "n">>
s_relation_to == <<"<", "r", "e", "l", "a", "t", "i", "o", "n", " ", "t", "o", " ">>

(***************************************************************************)
(* Characters                                                              *)
(***************************************************************************)
Ascii == <<" ", "\"", "'", ",", "/", "0", "1", "2", "3", "4", "5", "6", "7", "8", "9", ":", "<", ">", "A", "B", "C", "D", "E", "F", "G", "H", "I", "J", "K", "L", "M", "N", "O", "P", "Q", "R", "S", "T", "U", "V", "W", "X", "Y", "Z", "[", "]", "_", "a", "b", "c", "d", "e", "f", "g", "h", "i", "j", "k", "l", "m", "n", "o", "p", "q", "r", "s", "t", "u", "v", "w", "x", "y", "z", "{", "}">>

Ord(c) == CHOOSE i \in 1..Len(Ascii) : Ascii[i] = c

Digits == <<"0", "1", "2", "3", "4", "5", "6", "7", "8", "9">>

UpperCase == <<"A", "B", "C", "D", "E", "F", "G", "H", "I", "J", "K", "L", "M", "N", "O", "P", "Q", "R", "S", "T", "U", "V", "W", "X", "Y", "Z">>

LowerCase == <<"a", "b", "c", "d", "e", "f", "g", "h", "i", "j", "k", "l", "m", "n", "o", "p", "q", "r", "s", "t", "u", "v", "w", "x", "y", "z">>

\* str.lower() on one character
LowerChar(c) ==
    IF \E i \in 1..26 : UpperCase[i] = c
    THEN LowerCase[CHOOSE i \in 1..26 : UpperCase[i] = c]
    ELSE c

\* str.lower()
Lower(s) == [i \in 1..Len(s) |-> LowerChar(s[i])]

\* Python's  x in y  on strings
IsSubstr(x, y) ==
    \E i \in 0..(Len(y) - Len(x)) : SubSeq(y, i + 1, i + Len(x)) = x

\* str.endswith
EndsWith(s, suf) ==
    Len(s) >= Len(suf) /\ SubSeq(s, Len(s) - Len(suf) + 1, Len(s)) = suf

\* str.startswith
StartsWith(s, pre) ==
    Len(s) >= Len(pre) /\ SubSeq(s, 1, Len(pre)) = pre

\* lexicographic order of Python strings (code point order)
RECURSIVE StrLess(_, _)
StrLess(a, b) ==
    IF b = <<>> THEN FALSE
    ELSE IF a = <<>> THEN TRUE
    ELSE IF a[1] = b[1] THEN StrLess(Tail(a), Tail(b))
    ELSE Ord(a[1]) < Ord(b[1])

(***************************************************************************)
(* JSON values: every record has the same fields so that any two values    *)
(* can be compared.  t is the Python type; n the number (or 0/1 of a       *)
(* bool); s the string; kv the items of a dict in insertion order; el the  *)
(* elements of a list.                                                     *)
(***************************************************************************)
JNull == [t |-> "null", n |-> 0, s |-> <<>>, kv |-> <<>>, el |-> <<>>]
JInt(i) == [t |-> "int", n |-> i, s |-> <<>>, kv |-> <<>>, el |-> <<>>]
JBool(b) == [t |-> "bool", n |-> IF b THEN 1 ELSE 0, s |-> <<>>, kv |-> <<>>, el |-> <<>>]
JStr(x) == [t |-> "str", n |-> 0, s |-> x, kv |-> <<>>, el |-> <<>>]
JDict(items) == [t |-> "dict", n |-> 0, s |-> <<>>, kv |-> items, el |-> <<>>]
JList(elems) == [t |-> "list", n |-> 0, s |-> <<>>, kv |-> <<>>, el |-> elems]

\* k in d
HasKey(d, k) == \E i \in 1..Len(d.kv) : d.kv[i][1] = k

\* d[k]
Lookup(d, k) == d.kv[CHOOSE i \in 1..Len(d.kv) : d.kv[i][1] = k][2]

\* d.get(k): None when the key is absent
DictGet(d, k) == IF HasKey(d, k) THEN Lookup(d, k) ELSE JNull

\* list(d.keys())
Keys(d) == [i \in 1..Len(d.kv) |-> d.kv[i][1]]

(***************************************************************************)
(* Values of the variables of a script that is not running                 *)
(***************************************************************************)
\* marks a result that is not computed yet
NoStr == <<"?", "?">>

StrIdle ==
    /\ sv = JNull
    /\ sout = NoStr

\* marks "no key" (None) where a key is expected
NoKey == <<"?">>

\* the local variable sample: unbound before its first assignment
SampleUnbound == [st |-> "unbound", d |-> JNull]
SampleNone == [st |-> "none", d |-> JNull]
SampleOf(dct) == [st |-> "dict", d |-> dct]

OvIdle ==
    /\ all_collections = <<>>
    /\ col_ids = <<>>
    /\ a_idx = 0
    /\ a_name = NoKey
    /\ a_items = <<>>
    /\ sample = SampleUnbound
    /\ f_idx = 0
    /\ results = <<>>

VfIdle ==
    /\ collections = <<>>
    /\ all_ids = <<>>
    /\ chk_idx = 0
    /\ report = <<>>

MnIdle ==
    /\ endpoints = <<>>
    /\ ep_idx = 0
    /\ ep_name = NoKey
    /\ status = JNull
    /\ content = JNull
    /\ fb_idx = 0
    /\ data_dir = <<>>

AnIdle ==
    /\ docs = <<>>
    /\ d_idx = 0
    /\ all_schemas = <<>>
    /\ all_relationships = <<>>
    /\ rel_order = <<>>
    /\ norm_to_schema = <<>>
    /\ s_idx = 0
    /\ fk_results = <<>>

(***************************************************************************)
(* fetch_data.py: stringify                                                *)
(***************************************************************************)
\* str(n) of a non-negative int
RECURSIVE IntStr(_)
IntStr(n) ==
    IF n < 10 THEN <<Digits[n + 1]>>
    ELSE IntStr(n \div 10) \o <<Digits[(n % 10) + 1]>>

\* insertion of a pair into a list of pairs sorted by key
RECURSIVE InsertSorted(_, _)
InsertSorted(p, ps) ==
    IF ps = <<>> THEN <<p>>
    ELSE IF StrLess(p[1], Head(ps)[1]) THEN <<p>> \o ps
    ELSE <<Head(ps)>> \o InsertSorted(p, Tail(ps))

\* sorted(d.items()), as json.dumps(sort_keys=True) orders the keys
RECURSIVE SortItems(_)
SortItems(ps) ==
    IF ps = <<>> THEN <<>> ELSE InsertSorted(Head(ps), SortItems(Tail(ps)))

\* ", ".join(parts)
RECURSIVE JoinComma(_)
JoinComma(parts) ==
    IF parts = <<>> THEN <<>>
    ELSE IF Len(parts) = 1 THEN parts[1]
    ELSE parts[1] \o <<",", " ">> \o JoinComma(Tail(parts))

\* json.dumps(v, sort_keys=True, default=str)
RECURSIVE JsonDumps(_)
JsonDumps(v) ==
    CASE v.t = "null" -> j_null
      [] v.t = "bool" -> IF v.n = 1 THEN j_true ELSE j_false
      [] v.t = "int" -> IntStr(v.n)
      [] v.t = "str" -> <<"\"">> \o v.s \o <<"\"">>
      [] v.t = "list" ->
            <<"[">> \o JoinComma([i \in 1..Len(v.el) |-> JsonDumps(v.el[i])]) \o <<"]">>
      [] v.t = "dict" ->
            LET ps == SortItems(v.kv)
            IN <<"{">>
               \o JoinComma([i \in 1..Len(ps) |->
                     <<"\"">> \o ps[i][1] \o <<"\"">> \o <<":", " ">> \o JsonDumps(ps[i][2])])
               \o <<"}">>

\* repr(v), which str() of a dict or list uses for the nested values
RECURSIVE PyRepr(_)
PyRepr(v) ==
    CASE v.t = "null" -> s_None
      [] v.t = "bool" -> IF v.n = 1 THEN s_True ELSE s_False
      [] v.t = "int" -> IntStr(v.n)
      [] v.t = "str" -> <<"'">> \o v.s \o <<"'">>
      [] v.t = "list" ->
            <<"[">> \o JoinComma([i \in 1..Len(v.el) |-> PyRepr(v.el[i])]) \o <<"]">>
      [] v.t = "dict" ->
            <<"{">>
            \o JoinComma([i \in 1..Len(v.kv) |->
                  <<"'">> \o v.kv[i][1] \o <<"'">> \o <<":", " ">> \o PyRepr(v.kv[i][2])])
            \o <<"}">>

\* str(v)
PyStr(v) == IF v.t = "str" THEN v.s ELSE PyRepr(v)

\* the keys stringify probes in a dict, in order
IdLikeKeys == <<k_id, k__id, k_Id, k_ID, k_serial_number, k_asset_rfid_tag, k_rfid, k_serial>>

stringify(v) ==
    IF v.t = "null" THEN s_null
    ELSE IF v.t \in {"str", "int", "bool"} THEN PyStr(v)
    ELSE IF v.t = "dict" THEN
        LET hits == {i \in 1..Len(IdLikeKeys) :
                        HasKey(v, IdLikeKeys[i]) /\ Lookup(v, IdLikeKeys[i]).t # "null"}
        IN IF hits # {}
           THEN PyStr(Lookup(v, IdLikeKeys[CHOOSE i \in hits : \A j \in hits : i <= j]))
           ELSE JsonDumps(v)
    ELSE JsonDumps(v)

(***************************************************************************)
(* Inputs of stringify                                                     *)
(***************************************************************************)
NumVals == {0, 7, 10}
StrVals == {<<>>, <<"7">>, s_null, j_null}
DictKeys == {k_id, k_serial, <<"a">>}

Prims == {JNull} \cup {JInt(i) : i \in NumVals} \cup {JStr(x) : x \in StrVals}
            \cup {JBool(b) : b \in BOOLEAN}

\* sequences of at most n elements of S
SeqsUpTo(S, n) == UNION {[1..m -> S] : m \in 0..n}

DistinctKeys(items) ==
    \A i, j \in 1..Len(items) : i # j => items[i][1] # items[j][1]

DictVals == {JDict(items) : items \in {q \in SeqsUpTo(DictKeys \X Prims, MaxKeys) : DistinctKeys(q)}}
ListVals == {JList(elems) : elems \in SeqsUpTo(Prims, MaxElems)}
JsonVals == Prims \cup DictVals \cup ListVals

(***************************************************************************)
(* fetch_data.py: normalize_id_field, collect_ids, find_fk_candidates      *)
(***************************************************************************)
\* the names normalize_id_field tries first, in order
CommonIdNames == <<k_id, k__id, k_Id, k_ID>>

normalize_id_field(item) ==
    LET common == {i \in 1..Len(CommonIdNames) : HasKey(item, CommonIdNames[i])}
        ks == Keys(item)
        like == {i \in 1..Len(ks) :
                    EndsWith(Lower(ks[i]), k__id) \/ EndsWith(Lower(ks[i]), k_id)}
    IN IF common # {} THEN CommonIdNames[CHOOSE i \in common : \A j \in common : i <= j]
       ELSE IF like # {} THEN ks[CHOOSE i \in like : \A j \in like : i <= j]
       ELSE NoKey

collect_ids(items) ==
    {stringify(DictGet(items[i], normalize_id_field(items[i]))) :
        i \in {j \in 1..Len(items) :
                 /\ items[j].t = "dict"
                 /\ normalize_id_field(items[j]) # NoKey
                 /\ normalize_id_field(items[j]) # <<>>
                 /\ DictGet(items[j], normalize_id_field(items[j])).t # "null"}}

\* next((it for it in a_items if isinstance(it, dict)), None)
FirstDict(items) ==
    LET ds == {i \in 1..Len(items) : items[i].t = "dict"}
    IN IF ds = {} THEN SampleNone
       ELSE SampleOf(items[CHOOSE i \in ds : \A j \in ds : i <= j])

\* the value set of a field over the records of a collection
FieldVals(items, field) ==
    {stringify(DictGet(items[i], field)) :
        i \in {j \in 1..Len(items) :
                 items[j].t = "dict" /\ DictGet(items[j], field).t # "null"}}

name_match(field, b_name) ==
    \/ /\ EndsWith(Lower(field), k__id)
       /\ StartsWith(Lower(field), SubSeq(Lower(b_name), 1, IF Len(b_name) < 3 THEN Len(b_name) ELSE 3))
    \/ IsSubstr(Lower(b_name), Lower(field))
    \/ IsSubstr(Lower(field), Lower(b_name))

\* the candidates one field adds, one per collection of ids it overlaps
RECURSIVE FieldCandidates(_, _, _, _)
FieldCandidates(from, field, vals, ids) ==
    IF ids = <<>> THEN <<>>
    ELSE LET b_name == Head(ids)[1]
             inter == vals \cap Head(ids)[2]
             rest == FieldCandidates(from, field, vals, Tail(ids))
         IN IF inter # {}
            THEN <<[from_collection |-> from, field |-> field, to_collection |-> b_name,
                    matches |-> Cardinality(inter), sample_matches |-> inter,
                    name_match |-> name_match(field, b_name)]>> \o rest
            ELSE rest

\* the items the records of the collections are drawn from
ItemVals ==
    { JDict(<< <<k_id, JInt(1)>>, <<f_Building_Id, JInt(10)>> >>),
      JDict(<< <<k_id, JInt(10)>> >>),
      JDict(<< <<k_id, JInt(1)>>, <<k_parent, JInt(1)>> >>),
      JDict(<< <<f_Building_Id, JStr(<<"1", "0">>)>> >>),
      JInt(5) }

CollNames == {n_Asset, n_Buildings}

CollectionInputs ==
    {<<>>}
    \cup {<< <<a, x>> >> : a \in CollNames, x \in SeqsUpTo(ItemVals, MaxRecords)}
    \cup {<< <<a, x>>, <<b, y>> >> :
            <<a, b>> \in {p \in CollNames \X CollNames : p[1] # p[2]},
            <<x, y>> \in SeqsUpTo(ItemVals, MaxRecords) \X SeqsUpTo(ItemVals, MaxRecords)}

OvInit ==
    /\ pc = "fk_call"
    /\ all_collections \in CollectionInputs
    /\ col_ids = <<>>
    /\ a_idx = 0
    /\ a_name = NoKey
    /\ a_items = <<>>
    /\ sample = SampleUnbound
    /\ f_idx = 0
    /\ results = <<>>
    /\ StrIdle
    /\ VfIdle
    /\ AnIdle
    /\ MnIdle

\* results = [] and the identifier set of every collection
ColIds ==
    /\ pc = "fk_call"
    /\ col_ids' = [i \in 1..Len(all_collections) |->
                      <<all_collections[i][1], collect_ids(all_collections[i][2])>>]
    /\ results' = <<>>
    /\ a_idx' = 1
    /\ pc' = "fk_outer"
    /\ UNCHANGED <<all_collections, a_name, a_items, sample, f_idx, strVars, vfVars, anVars, mnVars>>

\* one iteration of  for a_name, a_items in all_collections.items()
OuterIter ==
    /\ pc = "fk_outer"
    /\ a_idx <= Len(all_collections)
    /\ a_name' = all_collections[a_idx][1]
    /\ a_items' = all_collections[a_idx][2]
    /\ sample' = IF all_collections[a_idx][2] = <<>> THEN sample
                 ELSE FirstDict(all_collections[a_idx][2])
    /\ a_idx' = a_idx + 1
    /\ UNCHANGED <<pc, all_collections, col_ids, f_idx, results, strVars, vfVars, anVars, mnVars>>

\* the loop is exhausted: the statement after it evaluates sample.keys()
OuterExit ==
    /\ pc = "fk_outer"
    /\ a_idx > Len(all_collections)
    /\ pc' = IF sample.st = "dict" THEN "fk_fields" ELSE "fk_raised"
    /\ f_idx' = 1
    /\ UNCHANGED <<all_collections, col_ids, a_idx, a_name, a_items, sample, results, strVars, vfVars, anVars, mnVars>>

\* one iteration of  for field in sample.keys()
FieldIter ==
    /\ pc = "fk_fields"
    /\ f_idx <= Len(Keys(sample.d))
    /\ LET field == Keys(sample.d)[f_idx]
           vals == FieldVals(a_items, field)
       IN results' =
            IF Lower(field) \in {k_id, k__id} \/ vals = {} THEN results
            ELSE results \o FieldCandidates(a_name, field, vals, col_ids)
    /\ f_idx' = f_idx + 1
    /\ UNCHANGED <<pc, all_collections, col_ids, a_idx, a_name, a_items, sample, strVars, vfVars, anVars, mnVars>>

\* return results
FkReturn ==
    /\ pc = "fk_fields"
    /\ f_idx > Len(Keys(sample.d))
    /\ pc' = "fk_done"
    /\ UNCHANGED <<ovVars, strVars, vfVars, anVars, mnVars>>

OvNext == ColIds \/ OuterIter \/ OuterExit \/ FieldIter \/ FkReturn
SpecOverlap == OvInit /\ [][OvNext]_vars

\* the identifier set of collection number i of the input
IdsOf(i) == collect_ids(all_collections[i][2])

\* the fields of the first mapping record of collection number i, without id/_id
CandidateFields(i) ==
    IF FirstDict(all_collections[i][2]).st # "dict" THEN {}
    ELSE {f \in {Keys(FirstDict(all_collections[i][2]).d)[k] :
                    k \in 1..Len(Keys(FirstDict(all_collections[i][2]).d))} :
            Lower(f) \notin {k_id, k__id}}

HasCandidate(c, f, t, m) ==
    \E r \in 1..Len(results) :
        /\ results[r].from_collection = c
        /\ results[r].field = f
        /\ results[r].to_collection = t
        /\ results[r].matches = m

\* C1: when find_fk_candidates has finished, every collection was treated
\* as a source: each field of its first mapping record (other than id/_id)
\* whose value set meets a collection's identifier set has a candidate
\* carrying the size of the intersection
C1_EveryCollectionIsSource ==
    pc = "fk_done" =>
        \A i, j \in 1..Len(all_collections) :
           \A f \in CandidateFields(i) :
              LET inter == FieldVals(all_collections[i][2], f) \cap IdsOf(j)
              IN inter # {} =>
                   HasCandidate(all_collections[i][1], f, all_collections[j][1],
                                Cardinality(inter))

\* C6: no candidate relates a collection to itself
C6_TargetIsAnotherCollection ==
    \A r \in 1..Len(results) : results[r].to_collection # results[r].from_collection

(***************************************************************************)
(* fetch_data.py: safe_name_from_endpoint and the fetch loop of main       *)
(***************************************************************************)
re_ns_collections == <<"n", "s", "=", "c", "o", "l", "l", "e", "c", "t", "i", "o", "n", "s", "%", "2">>
s_5 == <<"5">>
s_2F == <<"2", "F">>
e_swagger_Buildings == <<"/", "a", "p", "i", "/", "s", "w", "a", "g", "g", "e", "r", ":", "g", "e", "t", "?", "n", "s", "=", "c", "o", "l", "l", "e", "c", "t", "i", "o", "n", "s", "%", "2", "F", "B", "u", "i", "l", "d", "i", "n", "g", "s">>
e_swagger_252F_Buildings == <<"/", "a", "p", "i", "/", "s", "w", "a", "g", "g", "e", "r", ":", "g", "e", "t", "?", "n", "s", "=", "c", "o", "l", "l", "e", "c", "t", "i", "o", "n", "s", "%", "2", "5", "2", "F", "B", "u", "i", "l", "d", "i", "n", "g", "s">>
e_Asset_list == <<"/", "a", "p", "i", "/", "A", "s", "s", "e", "t", ":", "l", "i", "s", "t">>
s_api_collections == <<"/", "a", "p", "i", "/", "c", "o", "l", "l", "e", "c", "t", "i", "o", "n", "s", "/">>
s_limit_100 == <<"?", "l", "i", "m", "i", "t", "=", "1", "0", "0">>
s_pct20 == <<"%", "2", "0">>
s_pct2F == <<"%", "2", "F">>
s_pct252F == <<"%", "2", "5", "2", "F">>
s_fallback == <<"_", "f", "a", "l", "l", "b", "a", "c", "k">>
s_errors_ == <<"e", "r", "r", "o", "r", "s", "_">>
s_txt == <<".", "t", "x", "t">>
s_json == <<".", "j", "s", "o", "n">>
k_data == <<"d", "a", "t", "a">>
k_items == <<"i", "t", "e", "m", "s">>
k_results == <<"r", "e", "s", "u", "l", "t", "s">>
k_message == <<"m", "e", "s", "s", "a", "g", "e">>

\* p occurs in s at position i
HasAt(s, i, p) == i + Len(p) - 1 <= Len(s) /\ SubSeq(s, i, i + Len(p) - 1) = p

\* a character other than '&' stands at position i of s
NonAmpAt(s, i) == i <= Len(s) /\ s[i] # "&"

\* where the group of ns=collections%25?2F([^&]+) starts when the pattern
\* matches at position i, 0 when it does not; 5? makes the 5 optional, so
\* the pattern reads %252F or %22F
GroupStartAt(s, i) ==
    LET long == re_ns_collections \o s_5 \o s_2F
        short == re_ns_collections \o s_2F
    IN IF HasAt(s, i, long) /\ NonAmpAt(s, i + Len(long)) THEN i + Len(long)
       ELSE IF HasAt(s, i, short) /\ NonAmpAt(s, i + Len(short)) THEN i + Len(short)
       ELSE 0

\* re.search(r"ns=collections%25?2F([^&]+)", ep): the start of the group of
\* the leftmost match, 0 when there is no match
GroupStart(ep) ==
    LET hits == {i \in 1..Len(ep) : GroupStartAt(ep, i) # 0}
    IN IF hits = {} THEN 0
       ELSE GroupStartAt(ep, CHOOSE i \in hits : \A j \in hits : i <= j)

\* m.group(1)
GroupOf(ep) ==
    LET amps == {j \in GroupStart(ep)..Len(ep) : ep[j] = "&"}
    IN SubSeq(ep, GroupStart(ep),
              IF amps = {} THEN Len(ep)
              ELSE (CHOOSE j \in amps : \A k \in amps : j <= k) - 1)

IsWordChar(c) ==
    \/ c = "_"
    \/ \E i \in 1..Len(Digits) : Digits[i] = c
    \/ \E i \in 1..Len(UpperCase) : UpperCase[i] = c
    \/ \E i \in 1..Len(LowerCase) : LowerCase[i] = c

\* re.sub(r"[^0-9A-Za-z_]", "_", s)
Sanitize(s) == [i \in 1..Len(s) |-> IF IsWordChar(s[i]) THEN s[i] ELSE "_"]

\* s.strip("/ ")
RECURSIVE StripSlashSpace(_)
StripSlashSpace(s) ==
    IF s = <<>> THEN s
    ELSE IF Head(s) \in {"/", " "} THEN StripSlashSpace(Tail(s))
    ELSE IF s[Len(s)] \in {"/", " "} THEN StripSlashSpace(SubSeq(s, 1, Len(s) - 1))
    ELSE s

safe_name_from_endpoint(ep) ==
    IF GroupStart(ep) # 0 THEN Sanitize(GroupOf(ep))
    ELSE LET s == Sanitize(StripSlashSpace(ep))
         IN SubSeq(s, 1, IF Len(s) < 64 THEN Len(s) ELSE 64)

\* str.replace(old, new)
RECURSIVE Replace(_, _, _)
Replace(s, old, new) ==
    IF Len(s) < Len(old) THEN s
    ELSE IF SubSeq(s, 1, Len(old)) = old
         THEN new \o Replace(SubSeq(s, Len(old) + 1, Len(s)), old, new)
    ELSE <<Head(s)>> \o Replace(Tail(s), old, new)

\* the fallback endpoints main tries for an endpoint that names a collection
Fallbacks(ep) ==
    LET coll == Replace(Replace(Replace(GroupOf(ep), s_pct20, <<" ">>), s_pct2F, <<"/">>),
                        s_pct252F, <<"/">>)
    IN <<s_api_collections \o coll, s_api_collections \o coll \o s_limit_100>>

\* isinstance(content, (list, dict))
IsListOrDict(v) == v.t \in {"list", "dict"}

\* k in d and isinstance(d[k], list)
HoldsList(d, k) == HasKey(d, k) /\ Lookup(d, k).t = "list"

\* items: the records main takes from the response of an endpoint
ItemsOf(c) ==
    IF c.t = "dict"
    THEN IF HoldsList(c, k_data) THEN Lookup(c, k_data).el
         ELSE IF HoldsList(c, k_items) THEN Lookup(c, k_items).el
         ELSE IF HoldsList(c, k_results) THEN Lookup(c, k_results).el
         ELSE <<c>>
    ELSE IF c.t = "list" THEN c.el
    ELSE <<>>

\* items2: the records main takes from the response of a fallback endpoint
Items2Of(c) ==
    IF c.t = "dict"
    THEN IF HoldsList(c, k_items) THEN Lookup(c, k_items).el
         ELSE IF HoldsList(c, k_results) THEN Lookup(c, k_results).el
         ELSE <<c>>
    ELSE IF c.t = "list" THEN c.el
    ELSE <<>>

\* m[key] = value on a dict kept as a sequence of pairs
DictSet(m, key, value) ==
    IF \E i \in 1..Len(m) : m[i][1] = key
    THEN [i \in 1..Len(m) |-> IF m[i][1] = key THEN <<key, value>> ELSE m[i]]
    ELSE Append(m, <<key, value>>)

\* what fetch_endpoint can return: (None, None) on a network error, else the
\* status code and the parsed JSON body or, when it is not JSON, the text
RecAsset == JDict(<< <<k_id, JInt(1)>>, <<f_Building_Id, JInt(10)>> >>)
RecBuilding == JDict(<< <<k_id, JInt(10)>> >>)
ErrorBody == JDict(<< <<k_message, JStr(<<"x">>)>> >>)

Responses ==
    { [status |-> JNull, content |-> JNull],
      [status |-> JInt(200), content |-> JDict(<< <<k_data, JList(<<RecAsset>>)>> >>)],
      [status |-> JInt(200), content |-> JDict(<< <<k_items, JList(<<RecBuilding>>)>> >>)],
      [status |-> JInt(200), content |-> JDict(<< <<k_results, JList(<<>>)>> >>)],
      [status |-> JInt(200), content |-> JList(<<RecBuilding>>)],
      [status |-> JInt(200), content |-> JList(<<JInt(5)>>)],
      [status |-> JInt(200), content |-> JStr(<<"x">>)],
      [status |-> JInt(404), content |-> ErrorBody],
      [status |-> JInt(500), content |-> ErrorBody],
      [status |-> JInt(500), content |-> JStr(<<"x">>)] }

EndpointPool == {e_swagger_252F_Buildings, e_swagger_Buildings, e_Asset_list}

EndpointInputs ==
    {q \in SeqsUpTo(EndpointPool, MaxEndpoints) :
        \A i, j \in 1..Len(q) : i # j => q[i] # q[j]}

\* the files of the data directory: a .json file holds the dumped records,
\* an errors_ file is kept as the status it reports (None for no response)
ErrorFile(stem) == s_errors_ \o stem \o s_txt

MnInit ==
    /\ pc = "mn_loop"
    /\ endpoints \in EndpointInputs
    /\ ep_idx = 1
    /\ ep_name = NoKey
    /\ status = JNull
    /\ content = JNull
    /\ fb_idx = 0
    /\ data_dir = <<>>
    /\ OvIdle
    /\ StrIdle
    /\ VfIdle
    /\ AnIdle

\* one iteration of  for ep in endpoints  up to the fallback attempts:
\* fetch, record an error response, skip what cannot be used
FetchIter ==
    /\ pc = "mn_loop"
    /\ ep_idx <= Len(endpoints)
    /\ \E r \in Responses :
          LET ep == endpoints[ep_idx]
              errpath == ErrorFile(safe_name_from_endpoint(ep))
          IN /\ ep_name' = safe_name_from_endpoint(ep)
             /\ status' = r.status
             /\ content' = r.content
             /\ IF r.status.t = "null"
                THEN /\ data_dir' = DictSet(data_dir, errpath, JNull)
                     /\ ep_idx' = ep_idx + 1
                     /\ UNCHANGED <<pc, fb_idx>>
                ELSE IF r.status.n # 200 /\ ~IsListOrDict(r.content)
                THEN /\ data_dir' = DictSet(data_dir, errpath, r.status)
                     /\ ep_idx' = ep_idx + 1
                     /\ UNCHANGED <<pc, fb_idx>>
                ELSE /\ data_dir' = IF r.status.n # 200
                                    THEN DictSet(data_dir, errpath, r.status)
                                    ELSE data_dir
                     /\ IF r.status.n >= 500 /\ GroupStart(ep) # 0
                        THEN pc' = "mn_fallback" /\ fb_idx' = 1
                        ELSE pc' = "mn_store" /\ UNCHANGED fb_idx
                     /\ UNCHANGED ep_idx
    /\ UNCHANGED <<endpoints, ovVars, strVars, vfVars, anVars>>

\* one iteration of  for fb in fallbacks
Fallback ==
    /\ pc = "mn_fallback"
    /\ fb_idx <= Len(Fallbacks(endpoints[ep_idx]))
    /\ \E r \in Responses :
          LET ep == endpoints[ep_idx]
              fb == Fallbacks(ep)[fb_idx]
              errname == safe_name_from_endpoint(ep) \o s_fallback
              items2 == Items2Of(r.content)
          IN IF r.status.t = "null" \/ r.status.n # 200
             THEN /\ data_dir' = DictSet(data_dir, ErrorFile(errname), r.status)
                  /\ fb_idx' = fb_idx + 1
                  /\ UNCHANGED <<pc, all_collections>>
             ELSE /\ data_dir' = DictSet(data_dir, safe_name_from_endpoint(fb) \o s_json,
                                         JList(items2))
                  /\ all_collections' = DictSet(all_collections,
                                                safe_name_from_endpoint(ep), items2)
                  /\ pc' = "mn_store"
                  /\ UNCHANGED fb_idx
    /\ UNCHANGED <<endpoints, ep_idx, ep_name, status, content, col_ids, a_idx, a_name,
                   a_items, sample, f_idx, results, strVars, vfVars, anVars>>

\* no fallback endpoint answered 200
FallbackExit ==
    /\ pc = "mn_fallback"
    /\ fb_idx > Len(Fallbacks(endpoints[ep_idx]))
    /\ pc' = "mn_store"
    /\ UNCHANGED <<mnVars, ovVars, strVars, vfVars, anVars>>

\* the end of the iteration: items from content, saved and stored under name
Store ==
    /\ pc = "mn_store"
    /\ data_dir' = DictSet(data_dir, ep_name \o s_json, JList(ItemsOf(content)))
    /\ all_collections' = DictSet(all_collections, ep_name, ItemsOf(content))
    /\ ep_idx' = ep_idx + 1
    /\ pc' = "mn_loop"
    /\ UNCHANGED <<endpoints, ep_name, status, content, fb_idx, col_ids, a_idx, a_name,
                   a_items, sample, f_idx, results, strVars, vfVars, anVars>>

\* fk = find_fk_candidates(all_collections)
CallFk ==
    /\ pc = "mn_loop"
    /\ ep_idx > Len(endpoints)
    /\ pc' = "fk_call"
    /\ UNCHANGED <<mnVars, ovVars, strVars, vfVars, anVars>>

\* find_fk_candidates has returned: main reports no candidate or prints them
MainReport ==
    /\ pc = "fk_done"
    /\ pc' = IF results = <<>> THEN "mn_no_candidates" ELSE "mn_printed"
    /\ UNCHANGED <<mnVars, ovVars, strVars, vfVars, anVars>>

MnNext == FetchIter \/ Fallback \/ FallbackExit \/ Store \/ CallFk \/ OvNext \/ MainReport
SpecFetch == MnInit /\ [][MnNext]_vars

\* the records stored under a name when find_fk_candidates is called
StoredUnder(nm) ==
    all_collections[CHOOSE i \in 1..Len(all_collections) : all_collections[i][1] = nm][2]

\* the file that a successful fallback number k of an endpoint has written
FallbackFile(ep, k) == safe_name_from_endpoint(Fallbacks(ep)[k]) \o s_json

\* C14: when main calls find_fk_candidates, an endpoint that answered with a
\* status >= 500 and a JSON body and for which a fallback endpoint answered
\* 200 has, under its name, the records parsed from the fallback response
C14_FallbackItemsAreUsed ==
    pc = "fk_call" =>
        \A i \in 1..Len(endpoints) :
            GroupStart(endpoints[i]) # 0 =>
                \A k \in 1..Len(Fallbacks(endpoints[i])) :
                    \A f \in 1..Len(data_dir) :
                        data_dir[f][1] = FallbackFile(endpoints[i], k) =>
                            /\ \E c \in 1..Len(all_collections) :
                                  all_collections[c][1] = safe_name_from_endpoint(endpoints[i])
                            /\ StoredUnder(safe_name_from_endpoint(endpoints[i]))
                                  = data_dir[f][2].el

\* the input of find_fk_candidates is degenerate: no collection, only empty
\* collections, or a last collection without a mapping record
DegenerateInput ==
    \/ all_collections = <<>>
    \/ \A i \in 1..Len(all_collections) : all_collections[i][2] = <<>>
    \/ FirstDict(all_collections[Len(all_collections)][2]).st # "dict"

\* no collection has a mapping record
NoMappingRecord ==
    \A i \in 1..Len(all_collections) : FirstDict(all_collections[i][2]).st # "dict"

\* C15: find_fk_candidates does not raise on a degenerate input, it returns
\* the empty list when no collection has a mapping record, and main then
\* takes its branch for no candidates
C15_TotalOnDegenerateInput ==
    /\ DegenerateInput => pc # "fk_raised"
    /\ (pc = "fk_done" /\ NoMappingRecord) => results = <<>>
    /\ (pc = "mn_printed") => ~NoMappingRecord

(***************************************************************************)
(* verify_fks.py: extract_ids, main                                        *)
(***************************************************************************)
\* the collections main loads, in the order of the dict literal
VerifiedCollections ==
    <<n_Asset, n_Instance, n_Buildings, n_Rooms, n_Vendor, n_SRB_Details,
      n_Purchase_Order_Details, n_Asset_Condition, n_Asset_Coverage_History,
      n_Asset_Specifications>>

\* the (source, field, target) triples main verifies
fk_checks ==
    << <<n_Asset, f_Building_Id, n_Buildings>>,
       <<n_Asset, f_Room_Id, n_Rooms>>,
       <<n_Asset, f_SRB_Id, n_SRB_Details>>,
       <<n_Rooms, f_Building_id, n_Buildings>>,
       <<n_Instance, f_Asset_Id, n_Asset>>,
       <<n_Asset_Condition, f_asset_id, n_Asset>>,
       <<n_Asset_Coverage_History, f_Asset_Id, n_Asset>>,
       <<n_Asset_Specifications, f_Asset_Id, n_Asset>>,
       <<n_SRB_Details, f_Vendor_Id, n_Vendor>>,
       <<n_Purchase_Order_Details, f_Vendor_Id, n_Vendor>> >>

\* the raw id values of a collection (no conversion)
extract_ids(collection) ==
    {DictGet(collection[i], k_id) :
        i \in {j \in 1..Len(collection) :
                 collection[j].t = "dict" /\ DictGet(collection[j], k_id).t # "null"}}

\* collections.get(name, []) and all_ids.get(name, set())
CollectionOf(name) ==
    LET hit == {i \in 1..Len(collections) : collections[i][1] = name}
    IN IF hit = {} THEN <<>> ELSE collections[CHOOSE i \in hit : TRUE][2]

IdsOfTarget(name) ==
    LET hit == {i \in 1..Len(all_ids) : all_ids[i][1] = name}
    IN IF hit = {} THEN {} ELSE all_ids[CHOOSE i \in hit : TRUE][2]

\* the non-null values of the field over the mapping records, in order
RECURSIVE FkValues(_, _)
FkValues(coll, field) ==
    IF coll = <<>> THEN <<>>
    ELSE IF Head(coll).t = "dict" /\ DictGet(Head(coll), field).t # "null"
         THEN <<DictGet(Head(coll), field)>> \o FkValues(Tail(coll), field)
         ELSE FkValues(Tail(coll), field)

\* the number of mapping records whose field is null or absent
NullCount(coll, field) ==
    Cardinality({i \in 1..Len(coll) :
                    coll[i].t = "dict" /\ DictGet(coll[i], field).t = "null"})

\* the target ids the field values are compared with
ComparedIds(fk_field, target_ids) ==
    IF fk_field = f_Vendor_Id THEN {JStr(PyStr(x)) : x \in target_ids} ELSE target_ids

\* match_pct == 100, >= 50, else
StatusOf(nmatch, nunique) ==
    IF nmatch * 100 = 100 * nunique THEN "confirmed"
    ELSE IF nmatch * 100 >= 50 * nunique THEN "partial"
    ELSE "weak"

\* what one iteration over fk_checks reports
VerifyOne(source_name, fk_field, target_name) ==
    LET source_coll == CollectionOf(source_name)
        target_ids == IdsOfTarget(target_name)
        fk_values == FkValues(source_coll, fk_field)
        fk_set == {fk_values[i] : i \in 1..Len(fk_values)}
        cmp == ComparedIds(fk_field, target_ids)
        base == [source |-> source_name, field |-> fk_field, target |-> target_name,
                 outcome |-> "scored", total |-> Len(fk_values),
                 nulls |-> NullCount(source_coll, fk_field),
                 fk_set |-> fk_set, matches |-> fk_set \cap cmp, orphans |-> fk_set \ cmp,
                 pct_num |-> Cardinality(fk_set \cap cmp) * 100,
                 pct_den |-> Cardinality(fk_set),
                 status |-> StatusOf(Cardinality(fk_set \cap cmp), Cardinality(fk_set))]
        skipped(why) == [base EXCEPT !.outcome = why, !.total = 0, !.nulls = 0, !.fk_set = {},
                                     !.matches = {}, !.orphans = {}, !.pct_num = 0,
                                     !.pct_den = 0, !.status = "none"]
    IN IF source_coll = <<>> THEN skipped("no_source")
       ELSE IF target_ids = {} THEN skipped("no_target")
       ELSE IF fk_values = <<>> THEN skipped("all_null")
       ELSE base

\* the values of the checked field and of the target ids
FieldScalars == {JNull, JInt(10), JStr(<<"1", "0">>), JInt(99)}
TargetItems == {JDict(<< <<k_id, JInt(10)>> >>), JDict(<< <<k_id, JStr(<<"1", "0">>)>> >>), JInt(5)}

SourceItems(field) == {JDict(<< <<k_id, JInt(1)>>, <<field, x>> >>) : x \in FieldScalars}

\* the files of one checked triple exist, the others are missing
VerifyInputs ==
    UNION {
        {[i \in 1..Len(VerifiedCollections) |->
             <<VerifiedCollections[i],
               IF VerifiedCollections[i] = fk_checks[c][1] THEN src
               ELSE IF VerifiedCollections[i] = fk_checks[c][3] THEN tgt
               ELSE <<>> >>] :
            tgt \in SeqsUpTo(TargetItems, MaxTgtRecords),
            src \in SeqsUpTo(SourceItems(fk_checks[c][2]), MaxSrcRecords)} :
        c \in 1..Len(fk_checks)}

VfInit ==
    /\ pc = "vf_load"
    /\ collections \in VerifyInputs
    /\ all_ids = <<>>
    /\ chk_idx = 0
    /\ report = <<>>
    /\ StrIdle
    /\ OvIdle
    /\ AnIdle
    /\ MnIdle

\* all_ids = {name: extract_ids(coll) ...}
VfExtract ==
    /\ pc = "vf_load"
    /\ all_ids' = [i \in 1..Len(collections) |->
                      <<collections[i][1], extract_ids(collections[i][2])>>]
    /\ chk_idx' = 1
    /\ pc' = "vf_checks"
    /\ UNCHANGED <<collections, report, strVars, ovVars, anVars, mnVars>>

\* one iteration of  for source_name, fk_field, target_name in fk_checks
VfCheck ==
    /\ pc = "vf_checks"
    /\ chk_idx <= Len(fk_checks)
    /\ report' = Append(report, VerifyOne(fk_checks[chk_idx][1], fk_checks[chk_idx][2],
                                          fk_checks[chk_idx][3]))
    /\ chk_idx' = chk_idx + 1
    /\ UNCHANGED <<pc, collections, all_ids, strVars, ovVars, anVars, mnVars>>

\* the loop over fk_checks is exhausted
VfFinish ==
    /\ pc = "vf_checks"
    /\ chk_idx > Len(fk_checks)
    /\ pc' = "vf_done"
    /\ UNCHANGED <<vfVars, strVars, ovVars, anVars, mnVars>>

VfNext == VfExtract \/ VfCheck \/ VfFinish
SpecVerify == VfInit /\ [][VfNext]_vars

\* a field value and a target id denote the same identifier
SameIdentifier(x, y) == PyStr(x) = PyStr(y)

\* C4: in every scored triple, a field value that denotes the same
\* identifier as some target id is counted as a match and is no orphan,
\* whatever the types of the two
C4_NoFalseNegativeAcrossTypes ==
    \A r \in 1..Len(report) :
        report[r].outcome = "scored" =>
            \A x \in report[r].fk_set :
                (\E y \in IdsOfTarget(report[r].target) : SameIdentifier(x, y))
                    => (x \in report[r].matches /\ x \notin report[r].orphans)

\* C12: a triple with a non-null field value and a non-empty set of target
\* ids is scored with matched = |unique values /\ target ids|, orphans =
\* unique values \ target ids, matchPct = matched / |unique values| * 100,
\* and is confirmed iff all unique values matched, partial iff at least
\* half but not all matched, weak otherwise; the values [10, 99] against the
\* target ids {10} give 50 percent, partial, with the orphan 99
C12_MatchPctAndClassification ==
    \A r \in 1..Len(report) :
        LET vals == FkValues(CollectionOf(report[r].source), report[r].field)
            unique == {vals[i] : i \in 1..Len(vals)}
            target_ids == IdsOfTarget(report[r].target)
            matched == Cardinality(unique \cap target_ids)
        IN (vals # <<>> /\ target_ids # {}) =>
              /\ report[r].outcome = "scored"
              /\ Cardinality(report[r].matches) = matched
              /\ report[r].orphans = unique \ target_ids
              /\ matched + Cardinality(report[r].orphans) = Cardinality(unique)
              /\ report[r].pct_den = Cardinality(unique)
              /\ report[r].pct_num = matched * 100
              /\ report[r].status = "confirmed" <=> matched = Cardinality(unique)
              /\ report[r].status = "partial" <=>
                    (2 * matched >= Cardinality(unique) /\ matched # Cardinality(unique))
              /\ report[r].status = "weak" <=> 2 * matched < Cardinality(unique)
              /\ (vals = <<JInt(10), JInt(99)>> /\ target_ids = {JInt(10)}) =>
                    /\ report[r].pct_num = 50 * report[r].pct_den
                    /\ report[r].status = "partial"
                    /\ report[r].orphans = {JInt(99)}

(***************************************************************************)
(* analyze.py: normalize, load_schemas_from_file                           *)
(***************************************************************************)
IsLowerAlnum(c) ==
    \/ \E i \in 1..Len(Digits) : Digits[i] = c
    \/ \E i \in 1..Len(LowerCase) : LowerCase[i] = c

\* re.sub(r'[^0-9a-z]', '', name.lower())
normalize(name) == SelectSeq(Lower(name), IsLowerAlnum)

\* bool(v)
Truthy(v) ==
    CASE v.t = "null" -> FALSE
      [] v.t \in {"int", "bool"} -> v.n # 0
      [] v.t = "str" -> v.s # <<>>
      [] v.t = "list" -> v.el # <<>>
      [] v.t = "dict" -> v.kv # <<>>

\* d.get(k, {}) of a dict d
GetOrEmpty(d, k) == IF HasKey(d, k) THEN Lookup(d, k) ELSE JDict(<<>>)

\* the least index i >= from with s[i] in chars, 0 when there is none
FirstIndexFrom(s, from, chars) ==
    LET hits == {i \in from..Len(s) : s[i] \in chars}
    IN IF hits = {} THEN 0 ELSE CHOOSE i \in hits : \A j \in hits : i <= j

\* re.match(r'^/([^/]+)/\{[^}]+\}/([^:/]+):', path_str)
PathMatch(s) ==
    LET i == FirstIndexFrom(s, 2, {"/"})
        j == IF i = 0 THEN 0 ELSE FirstIndexFrom(s, i + 2, {"}"})
        k == IF j = 0 THEN 0 ELSE FirstIndexFrom(s, j + 2, {":", "/"})
    IN IF /\ Len(s) >= 1
          /\ s[1] = "/"
          /\ i >= 3
          /\ Len(s) >= i + 1
          /\ s[i + 1] = "{"
          /\ j >= i + 3
          /\ Len(s) >= j + 1
          /\ s[j + 1] = "/"
          /\ k >= j + 3
          /\ s[k] = ":"
       THEN [ok |-> TRUE, source |-> SubSeq(s, 2, i - 1), target |-> SubSeq(s, j + 2, k - 1)]
       ELSE [ok |-> FALSE, source |-> <<>>, target |-> <<>>]

\* relationships[source].add(target) on a dict of sets kept as <<source, set>> pairs
AddRel(rels, source, targets) ==
    IF \E i \in 1..Len(rels) : rels[i][1] = source
    THEN [i \in 1..Len(rels) |->
            IF rels[i][1] = source THEN <<source, rels[i][2] \cup targets>> ELSE rels[i]]
    ELSE Append(rels, <<source, targets>>)

\* the loop over paths.items() of load_schemas_from_file
RECURSIVE PathRelationships(_, _)
PathRelationships(path_keys, rels) ==
    IF path_keys = <<>> THEN rels
    ELSE LET m == PathMatch(Head(path_keys))
         IN PathRelationships(Tail(path_keys),
                IF m.ok THEN AddRel(rels, m.source, {m.target}) ELSE rels)

\* doc of load_schemas_from_file; JNull stands for the early return ({}, {})
DocOf(j) ==
    IF j.t = "list" /\ j.el # <<>> THEN [early |-> FALSE, doc |-> j.el[1]]
    ELSE IF j.t = "dict" THEN [early |-> FALSE, doc |-> j]
    ELSE [early |-> TRUE, doc |-> JNull]

\* load_schemas_from_file raises (AttributeError of .get or .items on a non-dict)
LoadRaises(j) ==
    /\ ~DocOf(j).early
    /\ LET doc == DocOf(j).doc
       IN \/ doc.t # "dict"
          \/ GetOrEmpty(doc, k_components).t # "dict"
          \/ GetOrEmpty(doc, k_paths).t # "dict"

\* the pair load_schemas_from_file returns when it does not raise
load_schemas_from_file(j) ==
    IF DocOf(j).early THEN [schemas |-> JDict(<<>>), rels |-> <<>>]
    ELSE LET doc == DocOf(j).doc
             schemas == GetOrEmpty(GetOrEmpty(doc, k_components), k_schemas)
         IN [schemas |-> IF Truthy(schemas) THEN schemas ELSE JDict(<<>>),
             rels |-> PathRelationships(Keys(GetOrEmpty(doc, k_paths)), <<>>)]

(***************************************************************************)
(* analyze.py: collect_all_schemas                                         *)
(***************************************************************************)
\* all_schemas after  for sname, sdef in schemas.items(): keep first seen
RECURSIVE MergeSchemas(_, _)
MergeSchemas(all, items) ==
    IF items = <<>> THEN all
    ELSE MergeSchemas(
            IF \E i \in 1..Len(all) : all[i][1] = Head(items)[1] THEN all
            ELSE Append(all, Head(items)),
            Tail(items))

\* all_relationships after  for sname, rel_list in rels.items(): update
RECURSIVE MergeRels(_, _)
MergeRels(all, rels) ==
    IF rels = <<>> THEN all
    ELSE MergeRels(AddRel(all, Head(rels)[1], Head(rels)[2]), Tail(rels))

(***************************************************************************)
(* analyze.py: find_candidate_fks                                          *)
(***************************************************************************)
\* {normalize(k): k for k in schemas.keys()}: a repeated key keeps its
\* position and takes the last value
RECURSIVE NormToSchema(_, _)
NormToSchema(names, acc) ==
    IF names = <<>> THEN acc
    ELSE LET key == normalize(Head(names))
         IN NormToSchema(Tail(names),
                IF \E i \in 1..Len(acc) : acc[i][1] = key
                THEN [i \in 1..Len(acc) |->
                        IF acc[i][1] = key THEN <<key, Head(names)>> ELSE acc[i]]
                ELSE Append(acc, <<key, Head(names)>>))

InMap(m, key) == \E i \in 1..Len(m) : m[i][1] = key
MapGet(m, key) == m[CHOOSE i \in 1..Len(m) : m[i][1] = key][2]

\* a in b or b in a
Containment(a, b) == IsSubstr(a, b) \/ IsSubstr(b, a)

\* the first schema, in the order of norm_to_schema, whose canonical name
\* contains or is contained in prop_norm; None when there is none
FirstContainment(prop_norm, n2s) ==
    LET hits == {i \in 1..Len(n2s) : Containment(n2s[i][1], prop_norm)}
    IN IF hits = {} THEN NoKey
       ELSE n2s[CHOOSE i \in hits : \A j \in hits : i <= j][2]

\* re.sub(r'(_id|_Id|Id)$', '', prop, flags=re.IGNORECASE)
StripIdSuffix(prop) ==
    IF EndsWith(Lower(prop), k__id) THEN SubSeq(prop, 1, Len(prop) - 3)
    ELSE IF EndsWith(Lower(prop), k_id) THEN SubSeq(prop, 1, Len(prop) - 2)
    ELSE prop

\* PluralOrSingular without the plural branch
PluralOrSingular_SingularOnly(clean) ==
    IF EndsWith(clean, <<"s">>) THEN SubSeq(clean, 1, Len(clean) - 1)
    ELSE clean

\* singular when clean ends in 's', plural otherwise
PluralOrSingular(clean) ==
    IF EndsWith(clean, <<"s">>) THEN SubSeq(clean, 1, Len(clean) - 1)
    ELSE clean \o <<"s">>

\* matched after the three naming strategies
NamingGuess(prop, n2s) ==
    LET first == FirstContainment(normalize(prop), n2s)
        clean == StripIdSuffix(prop)
    IN IF first # NoKey /\ first # <<>> THEN first
       ELSE IF InMap(n2s, normalize(clean)) THEN MapGet(n2s, normalize(clean))
       ELSE IF InMap(n2s, normalize(PluralOrSingular(clean)))
            THEN MapGet(n2s, normalize(PluralOrSingular(clean)))
       ELSE first

\* the targets of sname in api_relationships, in the iteration order of the set
RelatedOf(rel_seqs, sname) ==
    LET hit == {i \in 1..Len(rel_seqs) : rel_seqs[i][1] = sname}
    IN IF hit = {} THEN <<>> ELSE rel_seqs[CHOOSE i \in hit : TRUE][2]

\* the first related entity that matches the field; None when there is none
ConfirmingTarget(prop_norm, related) ==
    LET hits == {i \in 1..Len(related) : Containment(normalize(related[i]), prop_norm)}
    IN IF hits = {} THEN NoKey
       ELSE related[CHOOSE i \in hits : \A j \in hits : i <= j]

\* NamedCandidate in which a path target only fills in a missing guess
NamedCandidate_NoOverride(sname, prop, pdef, n2s, related) ==
    LET conf == ConfirmingTarget(normalize(prop), related)
        guess == NamingGuess(prop, n2s)
    IN [from |-> sname, field |-> prop,
        to_guess |-> IF guess # NoKey THEN guess ELSE conf,
        type |-> DictGet(pdef, k_type),
        confirmed_by_api |-> conf # NoKey,
        source |-> IF conf # NoKey THEN "api_path" ELSE "field_name"]

\* the record appended for a property whose name contains 'id'
NamedCandidate(sname, prop, pdef, n2s, related) ==
    LET conf == ConfirmingTarget(normalize(prop), related)
    IN [from |-> sname, field |-> prop,
        to_guess |-> IF conf # NoKey THEN conf ELSE NamingGuess(prop, n2s),
        type |-> DictGet(pdef, k_type),
        confirmed_by_api |-> conf # NoKey,
        source |-> IF conf # NoKey THEN "api_path" ELSE "field_name"]

\* IsIdLike without prop.lower()
IsIdLike_CaseSensitive(prop) == IsSubstr(k_id, prop)

\* 'id' in prop.lower()
IsIdLike(prop) == IsSubstr(k_id, Lower(prop))

\* the loop over props.items()
RECURSIVE NamedCandidates(_, _, _, _)
NamedCandidates(sname, props, n2s, related) ==
    IF props = <<>> THEN <<>>
    ELSE IF IsIdLike(Head(props)[1])
         THEN <<NamedCandidate(sname, Head(props)[1], Head(props)[2], n2s, related)>>
              \o NamedCandidates(sname, Tail(props), n2s, related)
         ELSE NamedCandidates(sname, Tail(props), n2s, related)

\* AlreadyCaptured without the comparison of fk['from']
AlreadyCaptured_AnySchema(res, sname, related) ==
    \E i \in 1..Len(res) : res[i].to_guess = related

\* found: some earlier result already relates sname to related
AlreadyCaptured(res, sname, related) ==
    \E i \in 1..Len(res) : res[i].from = sname /\ res[i].to_guess = related

\* the loop over api_relationships[sname] that adds the path-only relations
RECURSIVE PathOnlyCandidates(_, _, _)
PathOnlyCandidates(sname, related, res) ==
    IF related = <<>> THEN res
    ELSE PathOnlyCandidates(sname, Tail(related),
            IF AlreadyCaptured(res, sname, Head(related)) THEN res
            ELSE Append(res,
                    [from |-> sname,
                     field |-> s_relation_to \o Head(related) \o <<">">>,
                     to_guess |-> Head(related),
                     type |-> JStr(t_relation),
                     confirmed_by_api |-> TRUE,
                     source |-> "api_path_only"]))

\* props = sdef.get('properties', {}) or {}
PropsOf(sdef) ==
    LET p == GetOrEmpty(sdef, k_properties)
    IN IF Truthy(p) THEN p ELSE JDict(<<>>)

\* the iteration for one schema raises (AttributeError of .get or .items)
SchemaRaises(sdef) ==
    \/ sdef.t # "dict"
    \/ PropsOf(sdef).t # "dict"
    \/ \E i \in 1..Len(PropsOf(sdef).kv) :
          IsIdLike(PropsOf(sdef).kv[i][1]) /\ PropsOf(sdef).kv[i][2].t # "dict"

\* results after the iteration of the outer loop for one schema
SchemaCandidates(sname, sdef, n2s, rel_seqs, res) ==
    PathOnlyCandidates(sname, RelatedOf(rel_seqs, sname),
        res \o NamedCandidates(sname, PropsOf(sdef).kv, n2s, RelatedOf(rel_seqs, sname)))

\* find_candidate_fks as a whole: the loop over schemas.items()
RECURSIVE FindFrom(_, _, _, _)
FindFrom(schemas, n2s, rel_seqs, res) ==
    IF schemas = <<>> THEN res
    ELSE FindFrom(Tail(schemas), n2s, rel_seqs,
                  SchemaCandidates(Head(schemas)[1], Head(schemas)[2], n2s, rel_seqs, res))

find_candidate_fks(schemas, rel_seqs) ==
    FindFrom(schemas, NormToSchema([i \in 1..Len(schemas) |-> schemas[i][1]], <<>>),
             rel_seqs, <<>>)

\* collect_all_schemas as a whole, over files that all load mapping schemas
RECURSIVE collect_all_schemas(_, _)
collect_all_schemas(files, acc) ==
    IF files = <<>> THEN acc
    ELSE collect_all_schemas(Tail(files),
            IF LoadRaises(Head(files)) THEN acc
            ELSE [schemas |-> MergeSchemas(acc.schemas, load_schemas_from_file(Head(files)).schemas.kv),
                  rels |-> MergeRels(acc.rels, load_schemas_from_file(Head(files)).rels)])

(***************************************************************************)
(* analyze.py: main, as steps of collect_all_schemas and find_candidate_fks *)
(***************************************************************************)
\* the orders in which a set can be iterated
Perms(S) ==
    {f \in [1..Cardinality(S) -> S] : \A i, j \in 1..Cardinality(S) : i # j => f[i] # f[j]}

\* api_relationships with an iteration order for each set of targets
RECURSIVE RelOrders(_)
RelOrders(rels) ==
    IF rels = <<>> THEN {<<>>}
    ELSE {<< <<Head(rels)[1], p>> >> \o rest :
            p \in Perms(Head(rels)[2]), rest \in RelOrders(Tail(rels))}

\* one iteration of  for fname in os.listdir(DATA_DIR)
LoadFile ==
    /\ pc = "an_collect"
    /\ d_idx <= Len(docs)
    /\ d_idx' = d_idx + 1
    /\ IF LoadRaises(docs[d_idx])
       THEN UNCHANGED <<pc, all_schemas, all_relationships>>
       ELSE LET r == load_schemas_from_file(docs[d_idx])
            IN IF r.schemas.t # "dict"
               THEN /\ pc' = "an_raised"
                    /\ UNCHANGED <<all_schemas, all_relationships>>
               ELSE /\ all_schemas' = MergeSchemas(all_schemas, r.schemas.kv)
                    /\ all_relationships' = MergeRels(all_relationships, r.rels)
                    /\ UNCHANGED pc
    /\ UNCHANGED <<docs, rel_order, norm_to_schema, s_idx, fk_results, strVars, ovVars, vfVars, mnVars>>

\* collect_all_schemas returns; main stops when there is no schema
CollectReturn ==
    /\ pc = "an_collect"
    /\ d_idx > Len(docs)
    /\ pc' = IF all_schemas = <<>> THEN "an_done" ELSE "an_call"
    /\ UNCHANGED <<anVars, strVars, ovVars, vfVars, mnVars>>

\* find_candidate_fks starts: results = [], norm_to_schema
FindStart ==
    /\ pc = "an_call"
    /\ norm_to_schema' = NormToSchema([i \in 1..Len(all_schemas) |-> all_schemas[i][1]], <<>>)
    /\ rel_order' \in RelOrders(all_relationships)
    /\ fk_results' = <<>>
    /\ s_idx' = 1
    /\ pc' = "an_find"
    /\ UNCHANGED <<docs, d_idx, all_schemas, all_relationships, strVars, ovVars, vfVars, mnVars>>

\* one iteration of  for sname, sdef in schemas.items()
ProcessSchema ==
    /\ pc = "an_find"
    /\ s_idx <= Len(all_schemas)
    /\ s_idx' = s_idx + 1
    /\ IF SchemaRaises(all_schemas[s_idx][2])
       THEN pc' = "an_raised" /\ UNCHANGED fk_results
       ELSE /\ fk_results' = SchemaCandidates(all_schemas[s_idx][1], all_schemas[s_idx][2],
                                              norm_to_schema, rel_order, fk_results)
            /\ UNCHANGED pc
    /\ UNCHANGED <<docs, d_idx, all_schemas, all_relationships, rel_order, norm_to_schema,
                   strVars, ovVars, vfVars, mnVars>>

\* return results
FindReturn ==
    /\ pc = "an_find"
    /\ s_idx > Len(all_schemas)
    /\ pc' = "an_done"
    /\ UNCHANGED <<anVars, strVars, ovVars, vfVars, mnVars>>

(***************************************************************************)
(* Inputs of analyze.py                                                    *)
(***************************************************************************)
PropDef == JDict(<< <<k_type, JStr(t_integer)>> >>)

SchemaOf(props) ==
    JDict(<< <<k_properties, JDict([i \in 1..Len(props) |-> <<props[i], PropDef>>])>> >>)

PathsOf(templates) == JDict([i \in 1..Len(templates) |-> <<templates[i], JDict(<<>>)>>])

DocOfParts(schemas, paths) ==
    JDict(<< <<k_components, JDict(<< <<k_schemas, schemas>> >>)>>, <<k_paths, paths>> >>)

Template(source, target) ==
    <<"/">> \o source \o <<"/", "{", "i", "d", "}", "/">> \o target \o <<":", "g", "e", "t">>

SchemaPool == {n_Asset, n_Buildings, n_Asset_Specifications}
PropPool == {f_Building_Id, f_Asset_Specifications_Id, f_Asset_Name, f_Valid}
PathPool ==
    {Template(n_Asset, n_End_User), Template(n_Asset, n_Building),
     Template(n_Asset, n_Buildings), Template(n_Buildings, n_Asset),
     Template(n_Buildings, n_Asset_Specifications)}

Distinct(q) == \A i, j \in 1..Len(q) : i # j => q[i] # q[j]
Increasing(q) == \A i \in 1..(Len(q) - 1) : StrLess(q[i], q[i + 1])

PropSeqs == {q \in SeqsUpTo(PropPool, MaxProps) : Distinct(q)}
SchemaSeqs ==
    {[i \in 1..Len(q) |-> <<q[i][1], SchemaOf(q[i][2])>>] :
        q \in {r \in SeqsUpTo(SchemaPool \X PropSeqs, MaxSchemas) : DistinctKeys(r)}}
PathSeqs == {q \in SeqsUpTo(PathPool, MaxPaths) : Increasing(q)}

\* one well-formed document with schemas and relationship paths
FindDocs == {DocOfParts(JDict(ss), PathsOf(ps)) : ss \in SchemaSeqs, ps \in PathSeqs}

\* path templates of every shape of up to MaxSegs segments
SegPool == {n_Asset, n_End_User, <<"{", "i", "d", "}">>}
TailPool == {<<>>, <<":", "g", "e", "t">>}

RECURSIVE JoinSegs(_)
JoinSegs(segs) == IF segs = <<>> THEN <<>> ELSE <<"/">> \o Head(segs) \o JoinSegs(Tail(segs))

TemplatePool ==
    {JoinSegs(segs) \o tl : segs \in (SeqsUpTo(SegPool, MaxSegs) \ {<<>>}), tl \in TailPool}

TemplateDocs ==
    {DocOfParts(JDict(<< <<n_Asset, SchemaOf(<<>>)>> >>), PathsOf(<<tpl>>)) : tpl \in TemplatePool}

\* documents of the right and of the wrong shapes
GoodDocA ==
    DocOfParts(JDict(<< <<n_Asset, SchemaOf(<<f_Building_Id>>)>> >>),
               PathsOf(<<Template(n_Asset, n_End_User)>>))
GoodDocB ==
    JList(<<DocOfParts(JDict(<< <<n_Buildings, SchemaOf(<<>>)>> >>),
                       PathsOf(<<Template(n_Asset, n_Buildings)>>))>>)
BadTopScalar == JInt(5)
BadTopEmptyList == JList(<<>>)
BadFirstElement == JList(<<JInt(5)>>)
BadComponents == JDict(<< <<k_components, JInt(5)>> >>)
BadSchemasList == DocOfParts(JList(<<JInt(5)>>), PathsOf(<<>>))
BadSchemasNull == DocOfParts(JNull, PathsOf(<<Template(n_Asset, n_Building)>>))
BadPaths == DocOfParts(JDict(<< <<n_Buildings, SchemaOf(<<>>)>> >>), JInt(5))
BadSchemaEntry == DocOfParts(JDict(<< <<n_Buildings, JInt(5)>> >>), PathsOf(<<>>))
BadPropertyDef ==
    DocOfParts(JDict(<< <<n_Buildings,
                          JDict(<< <<k_properties, JDict(<< <<f_Building_Id, JInt(5)>> >>)>> >>)>> >>),
               PathsOf(<<>>))

ShapeDocs ==
    {GoodDocA, GoodDocB, BadTopScalar, BadTopEmptyList, BadFirstElement, BadComponents,
     BadSchemasList, BadSchemasNull, BadPaths, BadSchemaEntry, BadPropertyDef}

AnalyzeInputs ==
    {<<d>> : d \in FindDocs \cup TemplateDocs} \cup SeqsUpTo(ShapeDocs, MaxDocs)

AnInit ==
    /\ pc = "an_collect"
    /\ docs \in AnalyzeInputs
    /\ d_idx = 1
    /\ all_schemas = <<>>
    /\ all_relationships = <<>>
    /\ rel_order = <<>>
    /\ norm_to_schema = <<>>
    /\ s_idx = 0
    /\ fk_results = <<>>
    /\ StrIdle
    /\ OvIdle
    /\ VfIdle
    /\ MnIdle

AnNext == LoadFile \/ CollectReturn \/ FindStart \/ ProcessSchema \/ FindReturn
SpecAnalyze == AnInit /\ [][AnNext]_vars

(***************************************************************************)
(* Properties of analyze.py                                                *)
(***************************************************************************)
\* the names of the collected schemas
SchemaNames == {all_schemas[i][1] : i \in 1..Len(all_schemas)}

\* the path-derived targets of a schema
TargetsOf(sname) ==
    UNION {all_relationships[i][2] :
              i \in {j \in 1..Len(all_relationships) : all_relationships[j][1] = sname}}

\* the candidates that come from a property
NamedResults == {i \in 1..Len(fk_results) : fk_results[i].source # "api_path_only"}

\* the candidates that come from an API path alone
PathOnlyResults == {i \in 1..Len(fk_results) : fk_results[i].source = "api_path_only"}

\* the schemas {Asset: {properties: {Building_Id: {type: integer}}},
\* Buildings: {properties: {}}} without path hints
BuildingExampleDoc ==
    DocOfParts(JDict(<< <<n_Asset, SchemaOf(<<f_Building_Id>>)>>,
                        <<n_Buildings, SchemaOf(<<>>)>> >>),
               PathsOf(<<>>))

C3_SortedTieBreak ==
    pc = "an_done" =>
        \A r \in NamedResults :
            LET matching == {n \in SchemaNames :
                                Containment(normalize(n), normalize(fk_results[r].field))}
            IN (matching # {} /\ ~fk_results[r].confirmed_by_api) =>
                  /\ fk_results[r].to_guess \in matching
                  /\ \A n \in matching : ~StrLess(n, fk_results[r].to_guess)

\* C7: the collected relationships are exactly the (first segment, third
\* segment literal) pairs of the templates of the 3-segment shape: literal,
\* {parameter}, literal followed by ':'
C7_ThreeSegmentShapeOnly ==
    (pc \in {"an_call", "an_find", "an_done"}
        /\ \A d \in 1..Len(docs) : ~LoadRaises(docs[d])) =>
        LET IsPlaceholder(x) == Len(x) >= 2 /\ x[1] = "{" /\ x[Len(x)] = "}"
            IsLiteral(x) == x # <<>> /\ ~IsPlaceholder(x)
            Slashes(t) == {i \in 1..Len(t) : t[i] = "/"}
            Second(t) == CHOOSE i \in Slashes(t) : i > 1 /\ \A j \in Slashes(t) : j > 1 => i <= j
            Third(t) == CHOOSE i \in Slashes(t) : i > Second(t)
            Colon(t) == FirstIndexFrom(t, Third(t) + 1, {":"})
            HasShape(t) ==
                /\ Cardinality(Slashes(t)) = 3
                /\ t[1] = "/"
                /\ IsLiteral(SubSeq(t, 2, Second(t) - 1))
                /\ IsPlaceholder(SubSeq(t, Second(t) + 1, Third(t) - 1))
                /\ Third(t) - Second(t) >= 4
                /\ Colon(t) # 0
                /\ IsLiteral(SubSeq(t, Third(t) + 1, Colon(t) - 1))
            templates == UNION {{Keys(GetOrEmpty(DocOf(docs[d]).doc, k_paths))[i] :
                                    i \in 1..Len(Keys(GetOrEmpty(DocOf(docs[d]).doc, k_paths)))} :
                                d \in {e \in 1..Len(docs) : ~DocOf(docs[e]).early}}
        IN UNION {{<<all_relationships[i][1], tg>> : tg \in all_relationships[i][2]} :
                     i \in 1..Len(all_relationships)}
           = {<<SubSeq(t, 2, Second(t) - 1), SubSeq(t, Third(t) + 1, Colon(t) - 1)>> :
                 t \in {u \in templates : HasShape(u)}}

\* C8: no document of the wrong shape aborts the run, and the candidates are
\* those of the documents of the right shape alone
C8_MalformedDocsContributeNothing ==
    LET IsMap(v) == v.t = "dict"
        MapOrAbsent(d, k) == ~HasKey(d, k) \/ IsMap(Lookup(d, k))
        SchemasOf(doc) ==
            IF HasKey(doc, k_components) /\ HasKey(Lookup(doc, k_components), k_schemas)
            THEN Lookup(Lookup(doc, k_components), k_schemas).kv ELSE <<>>
        RightShape(j) ==
            /\ ~DocOf(j).early
            /\ IsMap(DocOf(j).doc)
            /\ MapOrAbsent(DocOf(j).doc, k_components)
            /\ MapOrAbsent(DocOf(j).doc, k_paths)
            /\ HasKey(DocOf(j).doc, k_components) =>
                  MapOrAbsent(Lookup(DocOf(j).doc, k_components), k_schemas)
            /\ \A i \in 1..Len(SchemasOf(DocOf(j).doc)) :
                  /\ IsMap(SchemasOf(DocOf(j).doc)[i][2])
                  /\ MapOrAbsent(SchemasOf(DocOf(j).doc)[i][2], k_properties)
                  /\ \A q \in 1..Len(GetOrEmpty(SchemasOf(DocOf(j).doc)[i][2], k_properties).kv) :
                        IsMap(GetOrEmpty(SchemasOf(DocOf(j).doc)[i][2], k_properties).kv[q][2])
        good == SelectSeq(docs, RightShape)
        kept == collect_all_schemas(good, [schemas |-> <<>>, rels |-> <<>>])
    IN /\ pc # "an_raised"
       /\ pc = "an_done" =>
             \E ord \in RelOrders(kept.rels) :
                fk_results = find_candidate_fks(kept.schemas, ord)

\* C9: for a schema S and a path-derived target T of S there is a path-only
\* candidate (S, T) exactly when no named-field candidate relates S to T, and
\* never more than one; path-only candidates exist for such pairs only
C9_PathOnlyIffNotCaptured ==
    pc = "an_done" =>
        /\ \A s \in SchemaNames :
              \A tg \in TargetsOf(s) :
                 LET only == {r \in PathOnlyResults :
                                 fk_results[r].from = s /\ fk_results[r].to_guess = tg}
                     named == {r \in NamedResults :
                                 fk_results[r].from = s /\ fk_results[r].to_guess = tg}
                 IN /\ (only # {}) <=> (named = {})
                    /\ Cardinality(only) <= 1
        /\ \A r \in PathOnlyResults :
              /\ fk_results[r].from \in SchemaNames
              /\ fk_results[r].to_guess \in TargetsOf(fk_results[r].from)

\* a finished run with a path-only candidate and with a path-derived target
\* that a named-field candidate already relates to its schema
C9_Witness ==
    /\ pc = "an_done"
    /\ PathOnlyResults # {}
    /\ \E r \in NamedResults :
          /\ fk_results[r].to_guess \in TargetsOf(fk_results[r].from)
          /\ ~\E q \in PathOnlyResults :
                /\ fk_results[q].from = fk_results[r].from
                /\ fk_results[q].to_guess = fk_results[r].to_guess

\* C10: a named-field candidate whose property has canonical containment
\* with a path-derived target of its schema points to such a target and is
\* confirmed; otherwise it keeps the naming-based target and is unconfirmed
C10_PathConfirmationOverrides ==
    pc = "an_done" =>
        \A r \in NamedResults :
            LET confirming == {tg \in TargetsOf(fk_results[r].from) :
                                  Containment(normalize(tg), normalize(fk_results[r].field))}
            IN IF confirming # {}
               THEN /\ fk_results[r].to_guess \in confirming
                    /\ fk_results[r].confirmed_by_api
               ELSE /\ fk_results[r].to_guess = NamingGuess(fk_results[r].field, norm_to_schema)
                    /\ ~fk_results[r].confirmed_by_api

\* a finished run in which a path-derived target replaced a different
\* naming-based target
C10_Witness ==
    /\ pc = "an_done"
    /\ \E r \in NamedResults :
          /\ fk_results[r].confirmed_by_api
          /\ NamingGuess(fk_results[r].field, norm_to_schema) # NoKey
          /\ fk_results[r].to_guess # NamingGuess(fk_results[r].field, norm_to_schema)

\* the candidates of a list of results, without their order
CandidateSet(res) == {res[i] : i \in 1..Len(res)}

\* C11: the candidates that a finished run of find_candidate_fks returns are
\* those of every other run over the same schemas and the same path
\* relationships, whatever the order in which the sets of targets iterate
C11_ResultIndependentOfSetOrder ==
    (pc = "an_done" /\ s_idx > 0) =>
        \A ord \in RelOrders(all_relationships) :
            CandidateSet(find_candidate_fks(all_schemas, ord)) = CandidateSet(fk_results)

\* the properties of the collected schema number i
PropertyNames(i) ==
    {PropsOf(all_schemas[i][2]).kv[k][1] : k \in 1..Len(PropsOf(all_schemas[i][2]).kv)}

\* the named-field candidates of a property of a schema
NamedFor(sname, prop) ==
    {r \in NamedResults : fk_results[r].from = sname /\ fk_results[r].field = prop}

\* no naming strategy and no path-derived target resolves the property
Unresolvable(sname, prop) ==
    /\ NamingGuess(prop, norm_to_schema) = NoKey
    /\ \A tg \in TargetsOf(sname) : ~Containment(normalize(tg), normalize(prop))

\* C13: in a finished run every property whose name contains 'id' in any
\* case has exactly one named-field candidate and every other property has
\* none; named-field candidates come from such properties only; a property
\* that nothing resolves still has its candidate, with the target null
C13_OneCandidatePerIdProperty ==
    (pc = "an_done" /\ s_idx > 0) =>
        /\ \A i \in 1..Len(all_schemas) :
              \A prop \in PropertyNames(i) :
                 /\ Cardinality(NamedFor(all_schemas[i][1], prop)) =
                       IF IsSubstr(k_id, Lower(prop)) THEN 1 ELSE 0
                 /\ (IsSubstr(k_id, Lower(prop)) /\ Unresolvable(all_schemas[i][1], prop)) =>
                       \E r \in NamedFor(all_schemas[i][1], prop) :
                          fk_results[r].to_guess = NoKey
        /\ \A r \in NamedResults :
              \E i \in 1..Len(all_schemas) :
                 /\ all_schemas[i][1] = fk_results[r].from
                 /\ fk_results[r].field \in PropertyNames(i)

\* a finished run with a candidate whose target is null and with a
\* property whose name does not contain 'id'
C13_Witness ==
    /\ pc = "an_done"
    /\ s_idx > 0
    /\ \E r \in NamedResults : fk_results[r].to_guess = NoKey
    /\ \E i \in 1..Len(all_schemas) :
          \E prop \in PropertyNames(i) : ~IsSubstr(k_id, Lower(prop))

StrInit ==
    /\ pc = "stringify"
    /\ sv \in JsonVals
    /\ sout = NoStr
    /\ OvIdle
    /\ VfIdle
    /\ AnIdle
    /\ MnIdle

\* one call of stringify
Stringify ==
    /\ pc = "stringify"
    /\ sout' = stringify(sv)
    /\ pc' = "stringify_done"
    /\ UNCHANGED <<sv, ovVars, vfVars, anVars, mnVars>>

StrNext == Stringify
SpecStr == StrInit /\ [][StrNext]_vars

\* C5: after a call on a non-null value the result differs from the
\* sentinel that stringify returns for null
C5_SentinelNeverCollides ==
    (pc = "stringify_done" /\ sv.t # "null") => sout # stringify(JNull)
====
